---- MODULE Spec2Model ----
(***************************************************************************)
(* A model of nannou's RawFrame (src/frame/raw.rs): one frame handle that  *)
(* owns a wgpu::CommandEncoder behind a std::sync::Mutex, the threads of   *)
(* the user's view function that record commands through the guard, and    *)
(* the frame-lifecycle manager that constructs the handle, consumes it     *)
(* with finish() and submits the encoder.                                  *)
(***************************************************************************)
EXTENDS Naturals, Sequences, FiniteSets

(* ---------------------------------------------------------------- bounds *)
\* threads the view function fans out to
NThreads == 2
\* guard acquisitions made during one frame, by all threads together
MaxSections == 2
\* commands one frame's encoder holds
MaxLen == 3
\* handles the manager constructs in one run
MaxFrames == 2

Threads == 1..NThreads

\* The arguments new_empty is called with.  The second combination pairs
\* device DB and its surface texture TB with the queue QA of device DA.
Inputs ==
    { [device |-> "DA", queue |-> "QA", window_id |-> "W1",
       swap_chain_texture |-> "TA", texture_format |-> "F1",
       window_rect |-> <<0, 0, 800, 600>>],
      [device |-> "DB", queue |-> "QA", window_id |-> "W2",
       swap_chain_texture |-> "TB", texture_format |-> "F2",
       window_rect |-> <<0, 0, 640, 480>>] }

\* The queue that belongs to a device.
QueueOfDevice(device) == IF device = "DA" THEN "QA" ELSE "QB"

VARIABLES
    frame,          \* the RawFrame: its fields, the Mutex included
    alive,          \* TRUE until the handle is moved into finish()
    pc,             \* per thread: where it is in the view function
    result,         \* what finish() gave the manager
    ret,            \* what the accessors last returned on the live handle
    accUnder,       \* history: the lock's state when they were last called
    frames,         \* manager: handles constructed so far for the window
    submits,        \* manager: submissions of this frame's encoder
    args,           \* history: the arguments this handle was constructed with
    csLog,          \* history: the critical sections, in the order they began
    recLog,         \* history: every command a thread recorded, in order
    holderPanicked, \* history: a thread panicked while holding the guard
    leaked,         \* history: a guard of this handle was forgotten, not dropped
    nFinish,        \* history: finish() calls that returned, on this handle
    prevDirty       \* history: the previous handle ended recorded to, locked
                    \*          or poisoned

vars == <<frame, alive, pc, result, ret, accUnder, frames, submits, args, csLog, recLog,
          holderPanicked, leaked, nFinish, prevDirty>>

(* ------------------------------------------------- std::sync::Mutex<T> *)
\* Mutex::new: unlocked and not poisoned.
Mutex_new(value) == [data |-> value, locked |-> FALSE, poisoned |-> FALSE]

\* Faulty variant: lock never waits for the holder.
lock_ready_always(m) == TRUE

\* Faulty variant: the lock is re-entrant, it is free for a thread that
\* already holds it.
lock_ready_reentrant(m) == ~m.locked \/ \E t \in Threads : pc[t] = "relock"

\* Mutex::lock returns only once the lock is free.
lock_ready(m) == ~m.locked

\* Faulty variant: the encoder is handed out without the lock being taken.
lock_unmarked(m) == [mutex |-> m, poisoned |-> m.poisoned]

\* Mutex::lock: takes the lock and reports the poison flag
\* (Err(PoisonError(guard)) when it is set).
lock(m) == [mutex |-> [m EXCEPT !.locked = TRUE], poisoned |-> m.poisoned]

\* Faulty variant: a guard dropped by unwinding leaves the lock locked.
guard_drop_keeps_lock_on_panic(m, panicking) ==
    [m EXCEPT !.locked = panicking, !.poisoned = m.poisoned \/ panicking]

\* Faulty variant: dropping the guard does not unlock.
guard_drop_never_unlocks(m, panicking) ==
    [m EXCEPT !.poisoned = m.poisoned \/ panicking]

\* MutexGuard::drop: poisons the mutex when the thread is unwinding from a
\* panic that began while the guard was held, then unlocks.
guard_drop(m, panicking) ==
    [m EXCEPT !.locked = FALSE, !.poisoned = m.poisoned \/ panicking]

\* Faulty variant: into_inner fails on a locked mutex as well (a try_lock before the
\* unwrap).
into_inner_checks_lock(m) == [ok |-> ~m.poisoned /\ ~m.locked, value |-> m.data]

\* Mutex::into_inner: consumes the mutex; Err when poisoned.  The lock state
\* is not looked at: ownership of the mutex is what the call requires.
into_inner(m) == [ok |-> ~m.poisoned, value |-> m.data]

(* ------------------------------------------------------------ RawFrame *)
\* Faulty variant: the device hands back the encoder of the handle before, with what
\* was recorded in it.
create_command_encoder_reused(device) == recLog

\* device.create_command_encoder(&ce_desc): a new encoder, nothing recorded.
create_command_encoder(device) == << >>

\* Faulty variant: the frame number given is dropped, every handle is frame 0.
new_empty_nth_zero(device, queue_, window_id_, nth_, swap_chain_texture_, texture_format_, window_rect_) ==
    [command_encoder    |-> Mutex_new(create_command_encoder(device)),
     window_id          |-> window_id_,
     nth                |-> 0,
     swap_chain_texture |-> swap_chain_texture_,
     queue              |-> queue_,
     texture_format     |-> texture_format_,
     window_rect        |-> window_rect_]

\* Faulty variant: the handle is bound to the device's own queue, not to the
\* queue it was given.
new_empty_device_queue(device, queue_, window_id_, nth_, swap_chain_texture_, texture_format_, window_rect_) ==
    [command_encoder    |-> Mutex_new(create_command_encoder(device)),
     window_id          |-> window_id_,
     nth                |-> nth_,
     swap_chain_texture |-> swap_chain_texture_,
     queue              |-> QueueOfDevice(device),
     texture_format     |-> texture_format_,
     window_rect        |-> window_rect_]

new_empty(device, queue_, window_id_, nth_, swap_chain_texture_, texture_format_, window_rect_) ==
    [command_encoder    |-> Mutex_new(create_command_encoder(device)),
     window_id          |-> window_id_,
     nth                |-> nth_,
     swap_chain_texture |-> swap_chain_texture_,
     queue              |-> queue_,
     texture_format     |-> texture_format_,
     window_rect        |-> window_rect_]

\* Faulty variant: finish returns a newly created encoder instead of the recorded one.
finish_new_encoder(self) ==
    IF self.command_encoder.poisoned
    THEN [status |-> "panic", enc |-> << >>]
    ELSE [status |-> "ok", enc |-> << >>]

\* Faulty variant: finish loses the last recorded command.
finish_drops_last(self) ==
    IF self.command_encoder.poisoned
    THEN [status |-> "panic", enc |-> << >>]
    ELSE [status |-> "ok",
          enc |-> SubSeq(self.command_encoder.data, 1,
                         Len(self.command_encoder.data) - 1)]

\* Faulty variant: finish recovers the encoder of a poisoned lock.
finish_recovers_poisoned(self) ==
    [status |-> "ok", enc |-> self.command_encoder.data]

\* finish(self): into_inner().expect(..) - the encoder, or a panic.
finish(self) ==
    LET r == into_inner(self.command_encoder)
    IN  IF r.ok THEN [status |-> "ok", enc |-> r.value]
                ELSE [status |-> "panic", enc |-> << >>]

window_id(self) == self.window_id
rect(self) == self.window_rect
\* Faulty variant: frame numbers reported one-based.
nth_one_based(self) == self.nth + 1

nth(self) == self.nth
swap_chain_texture(self) == self.swap_chain_texture
texture_format(self) == self.texture_format
queue(self) == self.queue

\* Faulty variant: a poisoned lock is recovered from instead of being fatal.
command_encoder_ignores_poison(self) ==
    [guard |-> TRUE,
     self  |-> [self EXCEPT !.command_encoder = [@ EXCEPT !.locked = TRUE]]]

\* What one command_encoder() call does once Mutex::lock has the lock, which
\* it takes whether the mutex is poisoned or not: .expect(..) hands the
\* guard out, or raises a panic on Err(PoisonError(guard)).  The guard inside
\* the PoisonError still holds the lock when the panic is raised.
command_encoder(self) ==
    LET r == lock(self.command_encoder)
    IN  [guard |-> ~r.poisoned,
         self  |-> [self EXCEPT !.command_encoder = r.mutex]]

\* A command recorded through the guard (DerefMut to the encoder): appended.
record(enc, cmd) == Append(enc, cmd)

\* What the six accessors return on one handle.
accessors(self) ==
    [window_id          |-> window_id(self),
     rect               |-> rect(self),
     nth                |-> nth(self),
     swap_chain_texture |-> swap_chain_texture(self),
     texture_format     |-> texture_format(self),
     queue              |-> queue(self)]

NoRet == << >>
NoResult == [status |-> "none", enc |-> << >>]

MkArgs(a, n) ==
    [device |-> a.device, queue |-> a.queue, window_id |-> a.window_id,
     nth |-> n, swap_chain_texture |-> a.swap_chain_texture,
     texture_format |-> a.texture_format, window_rect |-> a.window_rect]

\* A thread borrows the handle from the start of the view function until it
\* returns or unwinds.
Borrowing(t) == pc[t] \in {"idle", "waiting", "cs", "relock", "cs2", "failing"}
ViewReturned == \A t \in Threads : ~Borrowing(t)

(* ---------------------------------------------------------------- Init *)
Init ==
    /\ csLog = << >>
    /\ recLog = << >>
    /\ holderPanicked = FALSE
    /\ leaked = FALSE
    /\ nFinish = 0
    /\ prevDirty = FALSE
    /\ alive = TRUE
    /\ pc = [t \in Threads |-> "idle"]
    /\ result = NoResult
    /\ ret = NoRet
    /\ accUnder = NoRet
    /\ frames = 1
    /\ submits = << >>
    /\ \E a \in Inputs :
        /\ frame = new_empty(a.device, a.queue, a.window_id, 0,
                             a.swap_chain_texture, a.texture_format,
                             a.window_rect)
        /\ args = MkArgs(a, 0)

manager == <<alive, result, frames, submits, args, nFinish, prevDirty>>

Waiting == {t \in Threads : pc[t] = "waiting"}

\* The section thread t is in: the last one it began.
SectionOf(t) ==
    LET mine == {i \in 1..Len(csLog) : csLog[i] = t}
    IN  CHOOSE i \in mine : \A j \in mine : j <= i

\* The next marker command of thread t: <<thread, section, index>>.
Marker(t) ==
    LET sec == SectionOf(t)
        n   == Cardinality({i \in 1..Len(recLog) :
                                recLog[i][1] = t /\ recLog[i][2] = sec})
    IN  <<t, sec, n + 1>>

(* ------------------------------------------- the view function's threads *)
\* A thread calls frame.command_encoder() and waits in Mutex::lock.
Call(t) ==
    /\ alive
    /\ pc[t] = "idle"
    /\ Len(csLog) + Cardinality(Waiting) < MaxSections
    /\ pc' = [pc EXCEPT ![t] = "waiting"]
    /\ UNCHANGED <<frame, ret, accUnder, csLog, recLog, holderPanicked, leaked, manager>>

\* Mutex::lock returns with the lock taken: the call hands out the guard, or
\* on a poisoned lock raises its panic, the lock still held.
Acquire(t) ==
    /\ alive
    /\ pc[t] = "waiting"
    /\ lock_ready(frame.command_encoder)
    /\ LET r == command_encoder(frame)
       IN  /\ frame' = r.self
           /\ pc' = [pc EXCEPT ![t] = IF r.guard THEN "cs" ELSE "failing"]
           /\ csLog' = IF r.guard THEN Append(csLog, t) ELSE csLog
    /\ UNCHANGED <<ret, accUnder, recLog, holderPanicked, leaked, manager>>

\* The panic of a failed command_encoder() call unwinds: the guard inside
\* the PoisonError is dropped and the lock is free again.
Unwind(t) ==
    /\ alive
    /\ pc[t] = "failing"
    /\ frame' = [frame EXCEPT !.command_encoder = guard_drop(@, TRUE)]
    /\ pc' = [pc EXCEPT ![t] = "failed"]
    /\ UNCHANGED <<ret, accUnder, csLog, recLog, holderPanicked, leaked, manager>>

\* The guard's holder records one marker command <<thread, section, index>>.
Record(t) ==
    /\ alive
    /\ pc[t] = "cs"
    /\ Len(frame.command_encoder.data) < MaxLen
    /\ LET cmd == Marker(t)
       IN  /\ frame' = [frame EXCEPT !.command_encoder.data = record(@, cmd)]
           /\ recLog' = Append(recLog, cmd)
    /\ UNCHANGED <<pc, ret, accUnder, csLog, holderPanicked, leaked, manager>>

\* The guard goes out of scope (end of block or early return).
Release(t) ==
    /\ alive
    /\ pc[t] = "cs"
    /\ frame' = [frame EXCEPT !.command_encoder = guard_drop(@, FALSE)]
    /\ pc' = [pc EXCEPT ![t] = "idle"]
    /\ UNCHANGED <<ret, accUnder, csLog, recLog, holderPanicked, leaked, manager>>

\* The holder panics; unwinding drops the guard.
PanicInCS(t) ==
    /\ alive
    /\ pc[t] = "cs"
    /\ frame' = [frame EXCEPT !.command_encoder = guard_drop(@, TRUE)]
    /\ pc' = [pc EXCEPT ![t] = "panicked"]
    /\ holderPanicked' = TRUE
    /\ UNCHANGED leaked
    /\ UNCHANGED <<ret, accUnder, csLog, recLog, manager>>

\* The guard's holder calls frame.command_encoder() again and waits in
\* Mutex::lock with its first guard still alive.
CallAgain(t) ==
    /\ alive
    /\ pc[t] = "cs"
    /\ Len(csLog) + Cardinality(Waiting) < MaxSections
    /\ pc' = [pc EXCEPT ![t] = "relock"]
    /\ UNCHANGED <<frame, ret, accUnder, csLog, recLog, holderPanicked, leaked, manager>>

\* The second Mutex::lock of a holder comes back.  With the lock free it
\* hands out a second guard; with the lock held by the caller itself it
\* panics (unwinding drops the first guard) or, when this step is never
\* taken, blocks forever.
LockAgain(t) ==
    /\ alive
    /\ pc[t] = "relock"
    /\ IF lock_ready(frame.command_encoder)
       THEN /\ pc' = [pc EXCEPT ![t] = "cs2"]
            /\ UNCHANGED <<frame, holderPanicked, leaked>>
       ELSE /\ frame' = [frame EXCEPT !.command_encoder = guard_drop(@, TRUE)]
            /\ pc' = [pc EXCEPT ![t] = "panicked"]
            /\ holderPanicked' = TRUE
            /\ UNCHANGED leaked
    /\ UNCHANGED <<ret, accUnder, csLog, recLog, manager>>

\* The holder gives the guard to std::mem::forget: it is never dropped, so
\* the borrow ends and the lock stays locked.
Forget(t) ==
    /\ alive
    /\ pc[t] = "cs"
    /\ pc' = [pc EXCEPT ![t] = "idle"]
    /\ leaked' = TRUE
    /\ UNCHANGED <<frame, ret, accUnder, csLog, recLog, holderPanicked, manager>>

\* A thread's part of the view function returns.
Return(t) ==
    /\ alive
    /\ pc[t] = "idle"
    /\ pc' = [pc EXCEPT ![t] = "done"]
    /\ UNCHANGED <<frame, ret, accUnder, csLog, recLog, holderPanicked, leaked, manager>>

\* Faulty variant: the accessors take the recording lock to read the fields.
Access_locking ==
    /\ alive
    /\ lock_ready(frame.command_encoder)
    /\ \E t \in Threads :
          /\ pc[t] \in {"idle", "cs"}
          /\ accUnder' = <<\E u \in Threads \ {t} : pc[u] \in {"cs", "relock", "failing"},
                           frame.command_encoder.poisoned>>
    /\ ret' = <<accessors(frame)>>
    /\ UNCHANGED <<frame, pc, csLog, recLog, holderPanicked, leaked, manager>>

\* A thread that is not blocked in Mutex::lock reads the handle through its
\* accessors: window_id(), rect(), nth(), swap_chain_texture(),
\* texture_format() and queue().
Access ==
    /\ alive
    /\ \E t \in Threads :
          /\ pc[t] \in {"idle", "cs"}
          /\ accUnder' = <<\E u \in Threads \ {t} : pc[u] \in {"cs", "relock", "failing"},
                           frame.command_encoder.poisoned>>
    /\ ret' = <<accessors(frame)>>
    /\ UNCHANGED <<frame, pc, csLog, recLog, holderPanicked, leaked, manager>>

(* ------------------------------------------------- the lifecycle manager *)
\* Faulty variant: finish borrows the handle instead of consuming it.
Finish_by_ref ==
    /\ alive
    /\ ViewReturned
    /\ result' = finish(frame)
    /\ nFinish' = IF result'.status = "ok" THEN nFinish + 1 ELSE nFinish
    /\ UNCHANGED <<frame, alive, ret, accUnder, pc, frames, submits, args, csLog, recLog,
                   holderPanicked, leaked, prevDirty>>

\* Faulty variant: finish is reached while threads still borrow the handle.
Finish_while_borrowed ==
    /\ alive
    /\ result' = finish(frame)
    /\ alive' = FALSE
    /\ ret' = NoRet
    /\ accUnder' = NoRet
    /\ nFinish' = IF result'.status = "ok" THEN nFinish + 1 ELSE nFinish
    /\ UNCHANGED <<frame, pc, frames, submits, args, csLog, recLog,
                   holderPanicked, leaked, prevDirty>>

\* frame.finish(): the handle is moved into the call, which needs every
\* borrow of it to have ended.
Finish ==
    /\ alive
    /\ ViewReturned
    /\ result' = finish(frame)
    /\ alive' = FALSE
    /\ ret' = NoRet
    /\ accUnder' = NoRet
    /\ nFinish' = IF result'.status = "ok" THEN nFinish + 1 ELSE nFinish
    /\ UNCHANGED <<frame, pc, frames, submits, args, csLog, recLog,
                   holderPanicked, leaked, prevDirty>>

\* The manager submits the finished encoder to the queue it built the
\* handle with.
Submit ==
    /\ ~alive
    /\ result.status = "ok"
    /\ submits = << >>
    /\ submits' = <<[queue |-> args.queue, cmds |-> result.enc]>>
    /\ UNCHANGED <<frame, alive, pc, result, ret, accUnder, frames, args, csLog,
                   recLog, holderPanicked, leaked, nFinish, prevDirty>>

\* The manager takes the window's next frame number and constructs the next
\* handle for it, once the previous one was submitted or lost.
NextFrame ==
    /\ ~alive
    /\ result.status = "panic" \/ submits # << >>
    /\ frames < MaxFrames
    /\ frame' = new_empty(args.device, args.queue, args.window_id, frames,
                          args.swap_chain_texture, args.texture_format,
                          args.window_rect)
    /\ args' = MkArgs(args, frames)
    /\ alive' = TRUE
    /\ pc' = [t \in Threads |-> "idle"]
    /\ result' = NoResult
    /\ ret' = NoRet
    /\ accUnder' = NoRet
    /\ frames' = frames + 1
    /\ submits' = << >>
    /\ csLog' = << >>
    /\ recLog' = << >>
    /\ holderPanicked' = FALSE
    /\ leaked' = FALSE
    /\ nFinish' = 0
    /\ prevDirty' = \/ frame.command_encoder.data # << >>
                    \/ frame.command_encoder.locked
                    \/ frame.command_encoder.poisoned

(* ------------------------------------------------------- specifications *)
Next ==
    \/ \E t \in Threads : Call(t)
    \/ \E t \in Threads : Acquire(t)
    \/ \E t \in Threads : Unwind(t)
    \/ \E t \in Threads : Record(t)
    \/ \E t \in Threads : Release(t)
    \/ \E t \in Threads : PanicInCS(t)
    \/ \E t \in Threads : CallAgain(t)
    \/ \E t \in Threads : LockAgain(t)
    \/ \E t \in Threads : Forget(t)
    \/ \E t \in Threads : Return(t)
    \/ Access
    \/ Finish
    \/ Submit
    \/ NextFrame

\* Threads drop their guards where the scope ends, or leak them.
Spec == Init /\ [][Next]_vars

\* One frame in which no holder panics, leaks its guard or locks again, every
\* holder leaves its critical section, every thread blocked in lock() gets
\* its turn once the lock stays free, every thread returns from the view
\* function, and the manager then consumes the handle.
FairNext ==
    \/ \E t \in Threads : Call(t)
    \/ \E t \in Threads : Acquire(t)
    \/ \E t \in Threads : Record(t)
    \/ \E t \in Threads : Release(t)
    \/ \E t \in Threads : Return(t)
    \/ Finish

Fairness ==
    /\ \A t \in Threads : WF_vars(Acquire(t))
    /\ \A t \in Threads : WF_vars(Release(t))
    /\ \A t \in Threads : WF_vars(Return(t))
    /\ WF_vars(Finish)

SpecFair == Init /\ [][FairNext]_vars /\ Fairness

\* The same behaviours with a manager that does not stop between finish()
\* and the submission: once finish() has returned an encoder, it submits it.
SpecManaged == Init /\ [][Next]_vars /\ WF_vars(Submit)

TypeOK ==
    /\ alive \in BOOLEAN
    /\ pc \in [Threads -> {"idle", "waiting", "cs", "relock", "cs2", "done",
                          "panicked", "failing", "failed"}]
    /\ Len(frame.command_encoder.data) <= MaxLen
    /\ Len(csLog) <= MaxSections
    /\ frames \in 1..MaxFrames

(* ----------------------------------------------------------- properties *)
Holders == {t \in Threads : pc[t] \in {"cs", "relock", "cs2"}}
\* The threads inside a command_encoder() call that is panicking on poison:
\* they were handed no guard, the one in their PoisonError holds the lock.
Failing == {t \in Threads : pc[t] = "failing"}
Mutex == frame.command_encoder
Finished == ~alive
Returned == result.status = "ok"

\* C1: at most one thread holds the guard at any time, and a thread waiting
\* in command_encoder() leaves the call only in a step that starts with no
\* thread holding the guard.
C1_MutualExclusion ==
    /\ [](Cardinality(Holders \cup Failing) <= 1)
    /\ [][\A t \in Threads :
            (pc[t] = "waiting" /\ pc'[t] # "waiting") =>
                (Holders = {} /\ Failing = {})]_vars

\* One thread holds the guard while another is blocked in command_encoder().
C1_Witness ==
    \E t, u \in Threads : pc[t] = "cs" /\ pc[u] = "waiting"

\* The markers of enc: each once, each section's markers contiguous and in
\* index order, the sections in the order they began (csLog), each marker
\* in a section of the thread that recorded it, and exactly the markers the
\* threads recorded.
MarkersInOrder(enc) ==
    /\ \A i, j \in 1..Len(enc) : i < j => enc[i] # enc[j]
    /\ \A i, j \in 1..Len(enc) :
          (i < j /\ enc[i][2] = enc[j][2]) =>
              /\ enc[i][1] = enc[j][1]
              /\ enc[i][3] < enc[j][3]
              /\ \A k \in i..j : enc[k][2] = enc[i][2]
    /\ \A i, j \in 1..Len(enc) : i < j => enc[i][2] <= enc[j][2]
    /\ \A i \in 1..Len(enc) :
          /\ enc[i][2] \in 1..Len(csLog)
          /\ csLog[enc[i][2]] = enc[i][1]
    /\ Len(enc) = Len(recLog)
    /\ {enc[i] : i \in 1..Len(enc)} = {recLog[i] : i \in 1..Len(recLog)}

\* C2: the context finish() returns holds every recorded marker exactly
\* once, the markers of one critical section contiguous, the sections in the
\* order they executed, and so each thread's markers in the thread's order.
C2_RecordingOrder == Returned => MarkersInOrder(result.enc)

\* finish() returned three markers of which two, of one section of one
\* thread, are followed or preceded by another thread's.
C2_Witness ==
    /\ Returned
    /\ Len(result.enc) = 3
    /\ result.enc[1][1] # result.enc[3][1]

\* C3: on a handle no holder panicked on, finish() succeeds, and what it
\* returns is exactly the sequence of commands recorded before it.
C3_ConsumeReturnsRecorded ==
    /\ (Finished /\ ~holderPanicked) => Returned
    /\ Returned => result.enc = recLog

\* finish() returned two commands recorded through two acquisitions.
C3_Witness ==
    /\ Returned
    /\ Len(result.enc) = 2
    /\ result.enc[1][2] # result.enc[2][2]

\* The lifecycle state of the current handle.
Phase ==
    IF Finished THEN "Finished"
    ELSE IF csLog = << >> THEN "Empty" ELSE "Recording"

\* C4: a handle goes Empty -> Recording -> Finished and never back; once
\* finish() was performed on it nothing more happens to it - no guard is
\* acquired, no accessor returns, nothing is recorded, no second finish() -
\* and finish() returns at most once per handle.
C4_ConsumeOnce ==
    /\ [](nFinish <= 1)
    /\ [][frames' = frames =>
            /\ (Phase = "Recording" => Phase' # "Empty")
            /\ (Phase = "Finished" =>
                  /\ Phase' = "Finished"
                  /\ <<frame, pc, ret, result, csLog, recLog, nFinish>>' =
                     <<frame, pc, ret, result, csLog, recLog, nFinish>>)]_vars

\* A handle that was recorded to has been consumed and its encoder submitted.
C4_Witness ==
    /\ Finished
    /\ csLog # << >>
    /\ nFinish = 1
    /\ submits # << >>

\* C5 as stated: a command_encoder() call ends in a panic only when a holder
\* panicked with the guard before the call failed.
C5_PanicsOnlyAfterHolderPanic ==
    [][\A t \in Threads :
         (pc[t] \in {"waiting", "relock"} /\ pc'[t] \in {"failing", "panicked"}) =>
             holderPanicked]_vars

\* C5: a command_encoder() call of a thread that holds no guard panics
\* exactly when a holder panicked with the guard before; from then on the
\* lock stays poisoned, no call obtains the guard and a failing call is not
\* retried.  The only other call that ends in a panic is that of a thread
\* still holding a guard, made when no holder had panicked.
C5_PoisonFatal ==
    /\ []((\E t \in Threads : pc[t] \in {"failing", "failed"}) => holderPanicked)
    /\ [][\A t \in Threads :
            (pc[t] = "waiting" /\ pc'[t] # "waiting") =>
                (pc'[t] = "failing" <=> holderPanicked)]_vars
    /\ [][\A t \in Threads : pc[t] = "failing" => pc'[t] \in {"failing", "failed"}]_vars
    /\ [][\A t \in Threads :
            (pc[t] = "relock" /\ pc'[t] # "relock") =>
                (pc'[t] = "panicked" /\ ~holderPanicked /\ ~Mutex.poisoned)]_vars
    /\ [](holderPanicked => (Mutex.poisoned /\ Holders = {}))
    /\ [](Mutex.poisoned => holderPanicked)

\* A holder panicked and a later command_encoder() call failed.
C5_Witness ==
    \E t, u \in Threads : pc[t] = "panicked" /\ pc[u] = "failed"

\* The values new_empty was given, as the accessors should report them.
Constructed ==
    [window_id          |-> args.window_id,
     rect               |-> args.window_rect,
     nth                |-> args.nth,
     swap_chain_texture |-> args.swap_chain_texture,
     texture_format     |-> args.texture_format,
     queue              |-> args.queue]

\* C6: every accessor returns the value new_empty was given for its field,
\* whatever was acquired, recorded or released before, and an accessor call
\* changes neither the handle nor what was recorded.
C6_AccessorsImmutable ==
    /\ [](ret # << >> => ret[1] = Constructed)
    /\ [][(ret' # << >> /\ ret' # ret) =>
            (frame' = frame /\ recLog' = recLog /\ pc' = pc)]_vars

\* The accessors returned while a guard was held and commands were recorded.
C6_Witness ==
    /\ ret # << >>
    /\ Holders # {}
    /\ Mutex.data # << >>

\* C7 as stated: a finish() called while the lock is still held aborts
\* instead of returning the context.
C7_AbortsWhileLocked ==
    (Finished /\ Mutex.locked) => result.status = "panic"

\* C7 as amended: finish() is reached only with no guard alive, it panics
\* exactly when the lock is poisoned, and otherwise returns the encoder's
\* commands - also when a leaked guard left the lock locked.
C7_FinishFailsOnlyOnPoison ==
    Finished =>
        /\ Holders = {}
        /\ result.status \in {"ok", "panic"}
        /\ result.status = "panic" <=> Mutex.poisoned
        /\ Returned => result.enc = Mutex.data

\* finish() returned the context of a handle whose lock a leaked guard had
\* left locked.
C7_Witness ==
    /\ Finished
    /\ Mutex.locked
    /\ Returned

\* C8 as stated: the lock is held exactly while some thread is in its
\* critical section - counting as in its section also a thread that owns the
\* lock through the guard of its PoisonError.
C8_LockedOnlyInSection == Mutex.locked <=> (Holders \cup Failing) # {}

\* C8: every guard that is dropped - at the end of its scope, by an early
\* return or by unwinding - frees the lock.  The lock is held exactly while
\* some thread is in its critical section, or is unwinding from a
\* command_encoder() call that failed on poison, or after a guard was leaked
\* (forgotten instead of dropped); a lock held with no thread in its
\* critical section and no guard leaked is poisoned.
C8_GuardReleased ==
    /\ [](Mutex.locked <=> ((Holders \cup Failing) # {} \/ leaked))
    /\ []((Mutex.locked /\ Holders = {} /\ ~leaked) =>
            (Mutex.poisoned /\ Failing # {}))
    /\ [][\A t \in Threads :
            (/\ pc[t] \in {"cs", "relock", "failing"}
             /\ pc'[t] \in {"idle", "panicked", "failed"}
             /\ leaked' = leaked) => ~Mutex'.locked]_vars
    /\ [][leaked' # leaked =>
            (Mutex'.locked <=> (leaked' /\ frames' = frames))]_vars

\* A holder panicked after recording and a later command_encoder() call
\* failed on the poisoned lock: both guards were dropped by unwinding and
\* the lock is free again.
C8_Witness ==
    /\ recLog # << >>
    /\ \E t \in Threads : pc[t] = "panicked"
    /\ \E t \in Threads : pc[t] = "failed"
    /\ ~Mutex.locked
    /\ Mutex.poisoned

\* Nothing was done yet with the current handle's recording context.
Untouched ==
    /\ alive
    /\ csLog = << >>
    /\ \A t \in Threads : pc[t] # "failed"

\* C9: a handle new_empty has just produced has an empty, unlocked and
\* unpoisoned recording context, whatever was recorded, locked or poisoned
\* on the handle before it.
C9_FreshContext ==
    Untouched =>
        /\ Mutex.data = << >>
        /\ ~Mutex.locked
        /\ ~Mutex.poisoned

\* The window's second handle (frame number 1) before any recording, after a
\* first handle that ended recorded to, locked or poisoned.
C9_Witness ==
    /\ Untouched
    /\ frames = 2
    /\ nth(frame) = 1
    /\ prevDirty

\* C10 as stated: every frame that has ended has had its commands submitted
\* or has them ready for the one submission.
C10_EndedFrameSubmitted ==
    Finished => (submits # << >> \/ ENABLED Submit)

\* C10: a frame whose finish() returned gets its encoder submitted exactly
\* once: the submission comes, is never repeated or altered, is made only
\* after the view function returned and finish() gave the encoder back, goes
\* to the queue queue() names and holds the recorded commands in recording
\* order.  A frame on which a holder panicked is never submitted.
C10_SubmittedOnce ==
    /\ [](Len(submits) <= 1)
    /\ [](submits # << >> =>
            /\ Finished /\ ViewReturned /\ Returned
            /\ submits[1].queue = queue(frame)
            /\ submits[1].cmds = recLog)
    /\ [][(submits # << >> /\ frames' = frames) => submits' = submits]_vars
    /\ (Returned /\ submits = << >>) ~> (Returned /\ Len(submits) = 1)
    /\ []((Finished /\ holderPanicked) => (submits = << >> /\ ~ENABLED Submit))

\* Two recorded commands were submitted.
C10_Witness ==
    /\ submits # << >>
    /\ Len(submits[1].cmds) = 2

\* C11: the handles of the window carry the frame numbers 0, 1, 2, ... in
\* the order they are constructed: each handle's nth() is greater than that
\* of the handle before it, and none is reused.
C11_FrameNumbersIncrease ==
    /\ [](nth(frame) = frames - 1)
    /\ [][frames' # frames =>
            (frames' = frames + 1 /\ nth(frame') > nth(frame))]_vars

\* The window's second handle is alive and reports frame number 1.
C11_Witness ==
    /\ alive
    /\ frames = 2
    /\ nth(frame) = 1
    /\ args.nth = 1

\* The handle was built with a queue that is not its device's.
Mismatched == args.queue # QueueOfDevice(args.device)

\* C12: new_empty checks nothing about device, queue and surface texture:
\* called with a queue that is not the device's it still yields a live
\* handle, whose fields and accessors hold the values it was given.
C12_NoValidation ==
    Mismatched =>
        /\ frames >= 1
        /\ frame.command_encoder.data = recLog
        /\ queue(frame) = args.queue
        /\ swap_chain_texture(frame) = args.swap_chain_texture
        /\ ret # << >> =>
              /\ ret[1].queue = args.queue
              /\ ret[1].swap_chain_texture = args.swap_chain_texture

\* The accessors returned on a handle built from device DB, its texture TB
\* and the queue QA of device DA, and a guard was handed out on it.
C12_Witness ==
    /\ Mismatched
    /\ ret # << >>
    /\ ret[1].queue = "QA"
    /\ ret[1].swap_chain_texture = "TB"
    /\ Holders # {}

\* C13: once a holder panicked with the guard, finish() on that handle
\* panics: it returns no context, so nothing recorded before the panic is
\* yielded for submission.
C13_PoisonFatalAtFinish ==
    (Finished /\ holderPanicked) =>
        /\ result.status = "panic"
        /\ result.enc = << >>
        /\ ~Returned

\* finish() was called on a handle a holder had panicked on after
\* recording a command.
C13_Witness ==
    /\ Finished
    /\ holderPanicked
    /\ recLog # << >>

\* C16: when finish() has executed no guard on the handle is outstanding
\* and no thread still borrows it, and from then on nothing is appended to
\* the context it returned.
C16_NoRecordingAfterFinish ==
    /\ [](Finished => (Holders = {} /\ ViewReturned))
    /\ [](Returned => result.enc = Mutex.data)
    /\ [][(Finished /\ frames' = frames) =>
            (Mutex' = Mutex /\ recLog' = recLog /\ result' = result)]_vars

\* finish() returned a context recorded in two critical sections and the
\* manager went on to submit it.
C16_Witness ==
    /\ Returned
    /\ Len(csLog) = 2
    /\ Len(result.enc) >= 2
    /\ submits # << >>

\* Some thread borrows the live handle and is not blocked in Mutex::lock.
CanCall == alive /\ \E t \in Threads : pc[t] \in {"idle", "cs"}

\* C15: the accessors and finish() never wait for the recording lock: an
\* accessor call can complete whenever a thread can make it, whether the
\* lock is free, held by another thread or poisoned, and it leaves the lock
\* as it was; finish() can complete as soon as the view function has
\* returned, whatever the state of the lock.
C15_OnlyAcquisitionBlocks ==
    /\ [](CanCall => ENABLED Access)
    /\ []((alive /\ ViewReturned) => ENABLED Finish)
    /\ [][(accUnder' # accUnder /\ accUnder' # << >>) =>
            /\ Mutex' = Mutex
            /\ pc' = pc
            /\ accUnder'[1] => Mutex.locked
            /\ accUnder'[2] = Mutex.poisoned]_vars

\* The accessors returned to a thread while another thread held the guard.
C15_Witness ==
    /\ accUnder = <<TRUE, FALSE>>
    /\ ret # << >>
    /\ Holders # {}

\* The number of live guards of thread t.
Guards(t) ==
    CASE pc[t] \in {"cs", "relock"} -> 1
      [] pc[t] = "cs2"              -> 2
      [] OTHER                      -> 0

\* C17: a thread that calls command_encoder() while it holds a guard never
\* gets a second one: while it is in the call it stays blocked with the lock
\* held, and it leaves the call only by panicking, which drops its first
\* guard; no thread ever has two live guards.
C17_NotReentrant ==
    /\ [](\A t \in Threads : Guards(t) <= 1)
    /\ [](\A t \in Threads : pc[t] = "relock" => (Mutex.locked /\ Holders = {t}))
    /\ [][\A t \in Threads :
            (pc[t] = "relock" /\ pc'[t] # "relock") =>
                (pc'[t] = "panicked" /\ Holders' = {} /\ Mutex'.poisoned)]_vars

\* A thread that recorded a command under its guard is inside a second
\* command_encoder() call: it holds its one guard and the lock is held.
C17_Witness ==
    \E t \in Threads :
        /\ pc[t] = "relock"
        /\ Guards(t) = 1
        /\ recLog # << >>
        /\ Mutex.locked

\* C14: with no panic and every holder leaving its critical section, a
\* command_encoder() call ends only by handing out the guard; a free lock
\* with waiters is taken by one of them; every waiting thread gets the
\* guard and leaves its section; all threads return from the view function
\* and finish() is then performed and returns the context.
C14_Progress ==
    /\ [][\A t \in Threads :
            (pc[t] = "waiting" /\ pc'[t] # "waiting") =>
                (pc'[t] = "cs" /\ Mutex'.locked)]_vars
    /\ (Waiting # {} /\ ~Mutex.locked) ~> (Holders # {})
    /\ \A t \in Threads : (pc[t] = "waiting") ~> (pc[t] = "cs")
    /\ \A t \in Threads : (pc[t] = "cs") ~> (pc[t] = "idle")
    /\ <>[]ViewReturned
    /\ <>[](Finished /\ Returned)

\* Every section the frame allows was entered, not all by the same thread,
\* all threads returned and finish() returned the context.
C14_Witness ==
    /\ Finished
    /\ Returned
    /\ Len(csLog) = MaxSections
    /\ \E i, j \in 1..Len(csLog) : csLog[i] # csLog[j]
====
